---- MODULE Spec2Model ----
(***************************************************************************)
(* Model of src/telegram_bot.py: InteractiveBusinessBot, its four handlers *)
(* and the handler registration of run() (a ConversationHandler keyed by   *)
(* (chat, user) plus a stand-alone /help CommandHandler).  Updates are     *)
(* processed one at a time (Application.builder() leaves                   *)
(* concurrent_updates off), so a handler runs to completion before the     *)
(* next update is dispatched; the only intermediate position kept is the   *)
(* blocking analyzer call of _generate_analysis.                           *)
(***************************************************************************)
EXTENDS Integers, Sequences, FiniteSets, TLC

VARIABLES user_sessions, conversations, pc, last, events

vars == <<user_sessions, conversations, pc, last, events>>

----------------------------------------------------------------------------
(* Bounds of the model *)

\* number of collector identities that can be alive at once
MaxCollectors == 3
\* number of prompts the collector asks before it returns completed data
NumQuestions == 2

Users == {"u1", "u2"}
Chats == {"c1", "c2"}
\* c1 is the private chat of u1, c2 a group chat with both users
Members == [c1 |-> {"u1"}, c2 |-> {"u1", "u2"}]

\* message texts, as token sequences; a token starting with "/" is a command
CommandTokens == {"/start", "/cancel", "/help", "/other"}
Texts == {<<"/start">>, <<"/cancel">>, <<"/help">>, <<"/other">>, <<"a">>}

----------------------------------------------------------------------------
(* Program constants *)

COLLECTING_DATA == 1
END == -1
ChunkSize == 4096
\* characters of response_text before and after {advice}
HeaderLen == 38
FooterLen == 75
PreviewLen == 200

\* lengths of the advice text returned by the analyzer
AdviceLens == {PreviewLen - 1,
               ChunkSize - HeaderLen - FooterLen,
               ChunkSize - HeaderLen - FooterLen + 1}

\* advice lengths around one, two and three chunks of response text
WideAdviceLens ==
    {0, 1} \cup {k * ChunkSize - HeaderLen - FooterLen + d : k \in 1..3, d \in {-1, 0, 1}}

----------------------------------------------------------------------------
(* Values *)

None == [some |-> FALSE, val |-> <<>>]
Some(v) == [some |-> TRUE, val |-> v]

\* a handler's return value: None, COLLECTING_DATA or END
RetNone == [some |-> FALSE, val |-> 0]
Ret(v) == [some |-> TRUE, val |-> v]

Min(a, b) == IF a < b THEN a ELSE b

\* one observable call made by a handler, in the order the calls are made
Ev(type, what, data, lo, hi, ok) ==
    [type |-> type, what |-> what, data |-> data, lo |-> lo, hi |-> hi, ok |-> ok]

ReplyText(what, ok) == Ev("reply_text", what, <<>>, 0, 0, ok)
ReplyQuestion(n, ok) == Ev("reply_text", "question", <<>>, n, n, ok)
\* a fragment response_text[lo:hi]
ReplyAdvice(lo, hi, ok) == Ev("reply_text", "advice", <<>>, lo, hi, ok)
ChatAction(ok) == Ev("reply_chat_action", "typing", <<>>, 0, 0, ok)
LogError(what) == Ev("logger.error", what, <<>>, 0, 0, TRUE)
LogInfo(what) == Ev("logger.info", what, <<>>, 0, 0, TRUE)

\* the plan with its f-th call raising (f = 0: every call succeeds)
Run(plan, f) ==
    IF f = 0 \/ f > Len(plan) THEN plan
    ELSE [i \in 1..f |-> IF i = f THEN [plan[i] EXCEPT !.ok = FALSE] ELSE plan[i]]

Raised(plan, f) == f > 0 /\ f <= Len(plan)

\* Python dict operations
Del(d, k) == [x \in DOMAIN d \ {k} |-> d[x]]
Put(d, k, v) == [x \in DOMAIN d \cup {k} |-> IF x = k THEN v ELSE d[x]]

----------------------------------------------------------------------------
(* Collaborators: agents.data_collector and agents.data_analyzer *)

\* DataCollectorAgent(): a fresh, stateful collector holding the answers so far
DataCollectorAgent(id) == [id |-> id, answers |-> <<>>]

\* start_conversation(): the opening prompt
start_conversation(collector) == 1

\* process_user_input(text) -> (next_question, collected_data); the collector
\* keeps the answer, and returns the completed data after the last prompt
process_user_input(collector, text) ==
    LET answers == IF Len(collector.answers) < NumQuestions
                   THEN Append(collector.answers, text)
                   ELSE collector.answers
    IN [collector |-> [collector EXCEPT !.answers = answers],
        next_question |-> Len(answers) + 1,
        collected_data |-> IF Len(answers) >= NumQuestions THEN Some(answers) ELSE None]

\* generate_advice(user_data) returning an advice text of advice_len characters:
\* the call, and the record written to the persistence sink, carrying the data
\* and the preview advice[:200] followed by "..."
generate_advice(user_data, advice_len) ==
    << Ev("generate_advice", "advice", user_data, 0, advice_len, TRUE),
       Ev("add_record", "...", user_data, 0, Min(PreviewLen, advice_len), TRUE) >>

\* generate_advice(user_data) raising: nothing is written
generate_advice_raises(user_data) ==
    << Ev("generate_advice", "advice", user_data, 0, 0, FALSE) >>

\* the identity of a newly constructed object: one no live session refers to
FreshId(sessions) ==
    LET used == {sessions[u].collector.id : u \in DOMAIN sessions}
    IN CHOOSE i \in 1..MaxCollectors :
          i \notin used /\ \A j \in 1..(i - 1) : j \in used

----------------------------------------------------------------------------
(* run(): the handler registration and what the library does with it *)

\* CommandHandler(cmd).check_update
CommandHandlerMatches(cmd, text) == Len(text) > 0 /\ Head(text) = cmd

\* filters.COMMAND: the message starts with a bot command
IsCommand(text) == Len(text) > 0 /\ Head(text) \in CommandTokens

\* variant: the filter is filters.TEXT alone
TextOnly(text) == Len(text) > 0

\* filters.TEXT & ~filters.COMMAND
TextNotCommand(text) == Len(text) > 0 /\ ~IsCommand(text)

\* conv_handler.check_update: entry_points while the key has no state,
\* otherwise the state's handlers and then the fallbacks (allow_reentry unset)
ConvCheck(conv, key, text) ==
    IF key \notin DOMAIN conv
    THEN IF CommandHandlerMatches("/start", text) THEN "start_command" ELSE "none"
    ELSE IF conv[key] = COLLECTING_DATA /\ TextNotCommand(text) THEN "handle_user_input"
    ELSE IF CommandHandlerMatches("/cancel", text) THEN "cancel_command"
    ELSE IF CommandHandlerMatches("/help", text) THEN "help_command"
    ELSE "none"

\* the application's handlers in order: conv_handler, then CommandHandler('help')
Dispatch(conv, key, text) ==
    LET h == ConvCheck(conv, key, text)
    IN IF h # "none" THEN [handler |-> h, via_conv |-> TRUE]
       ELSE IF CommandHandlerMatches("/help", text)
            THEN [handler |-> "help_command", via_conv |-> FALSE]
            ELSE [handler |-> "none", via_conv |-> FALSE]

\* the conversation state after a callback returned ret (END removes the key,
\* None keeps the state); a callback that raised leaves the state as it was
UpdateState(conv, key, via_conv, raised, ret) ==
    IF raised \/ ~via_conv \/ ~ret.some THEN conv
    ELSE IF ret.val = END THEN Del(conv, key)
    ELSE Put(conv, key, ret.val)

\* error_handler: an exception leaving a callback is logged
error_handler(ev, raised) == IF raised THEN ev \o <<LogError("bot")>> ELSE ev

----------------------------------------------------------------------------
(* The handlers of InteractiveBusinessBot.  Each takes the session dict, the  *)
(* update and the outcome of its calls: f is the position, among the calls of *)
(* the handler's straight-line body, of the call that raises (0: none); g and *)
(* h say whether the apology sent by an except block fails to be sent.        *)

Truthy(collected_data) == collected_data.some /\ collected_data.val # <<>>

Result(sessions, ev, raised, ret) ==
    [sessions |-> sessions, events |-> ev, raised |-> raised, ret |-> ret,
     analyzing |-> FALSE, user_data |-> <<>>]

\* start_command
start_command(sessions, u, f) ==
    LET collector == DataCollectorAgent(FreshId(sessions))
        plan == << Ev("start_conversation", "collector", <<>>, collector.id, collector.id, TRUE),
                   ReplyText("welcome", TRUE),
                   ReplyQuestion(start_conversation(collector), TRUE) >>
        stored == Put(sessions, u, [collector |-> collector, collected_data |-> None])
    IN Result(IF f = 1 THEN sessions ELSE stored, Run(plan, f), Raised(plan, f),
              Ret(COLLECTING_DATA))

\* handle_user_input, the except block
InputExcept(sessions, ev, h) ==
    Result(sessions, ev \o <<LogError("input"), ReplyText("error_input", ~h)>>, h, Ret(END))

\* handle_user_input, after _generate_analysis has returned
InputDone(sessions, u, ev) ==
    Result(IF u \in DOMAIN sessions THEN Del(sessions, u) ELSE sessions, ev, FALSE, Ret(END))

\* _generate_analysis, the except block, and what handle_user_input does next
AnalysisExcept(sessions, u, ev, g, h) ==
    LET ev2 == ev \o <<LogError("analysis"), ReplyText("error_analysis", ~g)>>
    IN IF g THEN InputExcept(sessions, ev2, h) ELSE InputDone(sessions, u, ev2)

\* handle_user_input, the try block, given the collector's call and what it
\* returned, up to the call of analyzer.generate_advice
handle_collected(sessions, u, call, r, f, g, h) ==
    LET s1 == [sessions EXCEPT ![u].collector = r.collector]
        s2 == [s1 EXCEPT ![u].collected_data = r.collected_data]
        done == <<call, ReplyText("ack", TRUE), ChatAction(TRUE)>>
        more == <<call, ReplyQuestion(r.next_question, TRUE)>>
    IN IF f = 1 THEN InputExcept(sessions, Run(<<call>>, 1), h)
       ELSE IF Truthy(r.collected_data)
       THEN IF f = 2 THEN InputExcept(s2, Run(done, 2), h)
            ELSE IF f = 3 THEN AnalysisExcept(s2, u, Run(done, 3), g, h)
            ELSE [sessions |-> s2, events |-> done, raised |-> FALSE, ret |-> RetNone,
                  analyzing |-> TRUE, user_data |-> r.collected_data.val]
       ELSE IF f = 2 THEN InputExcept(s1, Run(more, 2), h)
            ELSE Result(s1, more, FALSE, Ret(COLLECTING_DATA))

\* handle_user_input
handle_user_input(sessions, u, text, f, g, h) ==
    IF u \notin DOMAIN sessions
    THEN LET plan == <<ReplyText("start_first", TRUE)>>
         IN Result(sessions, Run(plan, f), Raised(plan, f), Ret(END))
    ELSE
      LET collector == sessions[u].collector
          call == Ev("process_user_input", "collector", <<text>>, collector.id, collector.id, TRUE)
      IN handle_collected(sessions, u, call, process_user_input(collector, text), f, g, h)

ResponseLen(advice_len) == HeaderLen + advice_len + FooterLen

\* variant: each slice is one character short
RECURSIVE PartsOffByOne(_, _)
PartsOffByOne(len, i) ==
    IF i >= len THEN <<>>
    ELSE <<[lo |-> i, hi |-> Min(i + ChunkSize - 1, len)]>> \o PartsOffByOne(len, i + ChunkSize)

\* [response_text[i:i+4096] for i in range(0, len(response_text), 4096)]
RECURSIVE Parts(_, _)
Parts(len, i) ==
    IF i >= len THEN <<>>
    ELSE <<[lo |-> i, hi |-> Min(i + ChunkSize, len)]>> \o Parts(len, i + ChunkSize)

\* the sends of the response: each part followed by a typing action, or the
\* whole text in one message
SendPlan(len) ==
    IF len > ChunkSize
    THEN LET parts == Parts(len, 0)
         IN [k \in 1..(2 * Len(parts)) |->
                IF k % 2 = 1 THEN ReplyAdvice(parts[(k + 1) \div 2].lo, parts[(k + 1) \div 2].hi, TRUE)
                ELSE ChatAction(TRUE)]
    ELSE <<ReplyAdvice(0, len, TRUE)>>

\* variant: the analyzer is invoked a second time for the same data
analyzer_call_twice(user_data, advice_len) ==
    generate_advice(user_data, advice_len) \o generate_advice(user_data, advice_len)

\* advice = analyzer.generate_advice(user_data), returning
analyzer_call(user_data, advice_len) == generate_advice(user_data, advice_len)

\* _generate_analysis from the call of analyzer.generate_advice on, and the
\* rest of handle_user_input
generate_analysis(sessions, u, ev, user_data, raises, advice_len, f, g, h) ==
    IF raises
    THEN AnalysisExcept(sessions, u, ev \o generate_advice_raises(user_data), g, h)
    ELSE LET ev1 == ev \o analyzer_call(user_data, advice_len)
             plan == SendPlan(ResponseLen(advice_len))
         IN IF Raised(plan, f)
            THEN AnalysisExcept(sessions, u, ev1 \o Run(plan, f), g, h)
            ELSE InputDone(sessions, u, ev1 \o plan \o <<LogInfo("analysis")>>)

\* variant: cancel_command empties the whole session dict
cancel_command_clears(sessions, u, f) ==
    LET plan == <<ReplyText("cancelled", TRUE)>>
    IN Result(<<>>, Run(plan, f), Raised(plan, f), Ret(END))

\* cancel_command
cancel_command(sessions, u, f) ==
    LET plan == <<ReplyText("cancelled", TRUE)>>
    IN Result(IF u \in DOMAIN sessions THEN Del(sessions, u) ELSE sessions,
              Run(plan, f), Raised(plan, f), Ret(END))

\* variant: help_command ends the conversation, as cancel_command does
help_command_ends(sessions, u, f) ==
    LET plan == <<ReplyText("help", TRUE)>>
    IN Result(sessions, Run(plan, f), Raised(plan, f), Ret(END))

\* help_command
help_command(sessions, u, f) ==
    LET plan == <<ReplyText("help", TRUE)>>
    IN Result(sessions, Run(plan, f), Raised(plan, f), RetNone)

----------------------------------------------------------------------------
(* The state machine *)

Idle == [at |-> "idle", user_data |-> <<>>]
Analyzing(user_data) == [at |-> "generate_advice", user_data |-> user_data]

\* the update being handled, or the last one handled
Update(c, u, text, handler, via_conv, outcome) ==
    [chat |-> c, user |-> u, text |-> text, handler |-> handler, via_conv |-> via_conv,
     in_conv |-> <<c, u>> \in DOMAIN conversations,
     had_session |-> u \in DOMAIN user_sessions,
     outcome |-> outcome]

Outcome(r) == IF r.analyzing THEN "analyzing" ELSE IF r.raised THEN "raised" ELSE "returned"

Init ==
    /\ user_sessions = <<>>
    /\ conversations = <<>>
    /\ pc = Idle
    /\ last = [chat |-> "-", user |-> "-", text |-> <<>>, handler |-> "none",
               via_conv |-> FALSE, in_conv |-> FALSE, had_session |-> FALSE,
               outcome |-> "none"]
    /\ events = <<>>

\* what a callback's result does to the state
Apply(c, u, text, d, r) ==
    /\ user_sessions' = r.sessions
    /\ events' = error_handler(r.events, r.raised)
    /\ conversations' = IF r.analyzing THEN conversations
                        ELSE UpdateState(conversations, <<c, u>>, d.via_conv, r.raised, r.ret)
    /\ pc' = IF r.analyzing THEN Analyzing(r.user_data) ELSE Idle
    /\ last' = Update(c, u, text, d.handler, d.via_conv, Outcome(r))

StartCommand ==
    \E c \in Chats : \E u \in Members[c], text \in Texts :
       LET d == Dispatch(conversations, <<c, u>>, text)
       IN /\ pc.at = "idle"
          /\ d.handler = "start_command"
          /\ \E f \in 0..3 :
                Apply(c, u, text, d, start_command(user_sessions, u, f))

HandleUserInput ==
    \E c \in Chats : \E u \in Members[c], text \in Texts :
       LET d == Dispatch(conversations, <<c, u>>, text)
       IN /\ pc.at = "idle"
          /\ d.handler = "handle_user_input"
          /\ \E f \in 0..3, g \in BOOLEAN, h \in BOOLEAN :
                Apply(c, u, text, d, handle_user_input(user_sessions, u, text, f, g, h))

\* the blocking call analyzer.generate_advice returns or raises, and the
\* handler runs to its end
AnalysisStep(lens, maxf) ==
    /\ pc.at = "generate_advice"
    /\ \E raises \in BOOLEAN, advice_len \in lens, f \in 0..maxf,
          g \in BOOLEAN, h \in BOOLEAN :
          LET r == generate_analysis(user_sessions, last.user, events, pc.user_data,
                                     raises, advice_len, f, g, h)
          IN /\ user_sessions' = r.sessions
             /\ events' = error_handler(r.events, r.raised)
             /\ conversations' = UpdateState(conversations, <<last.chat, last.user>>,
                                             last.via_conv, r.raised, r.ret)
             /\ pc' = Idle
             /\ last' = [last EXCEPT !.outcome = Outcome(r)]

GenerateAnalysis == AnalysisStep(AdviceLens, 4)

CancelCommand ==
    \E c \in Chats : \E u \in Members[c], text \in Texts :
       LET d == Dispatch(conversations, <<c, u>>, text)
       IN /\ pc.at = "idle"
          /\ d.handler = "cancel_command"
          /\ \E f \in 0..1 :
                Apply(c, u, text, d, cancel_command(user_sessions, u, f))

HelpCommand ==
    \E c \in Chats : \E u \in Members[c], text \in Texts :
       LET d == Dispatch(conversations, <<c, u>>, text)
       IN /\ pc.at = "idle"
          /\ d.handler = "help_command"
          /\ \E f \in 0..1 :
                Apply(c, u, text, d, help_command(user_sessions, u, f))

\* an update no registered handler accepts is dropped
NoHandler ==
    \E c \in Chats : \E u \in Members[c], text \in Texts :
       LET d == Dispatch(conversations, <<c, u>>, text)
       IN /\ pc.at = "idle"
          /\ d.handler = "none"
          /\ last' = Update(c, u, text, "none", FALSE, "dropped")
          /\ events' = <<>>
          /\ UNCHANGED <<user_sessions, conversations, pc>>

Next ==
    \/ StartCommand
    \/ HandleUserInput
    \/ GenerateAnalysis
    \/ CancelCommand
    \/ HelpCommand
    \/ NoHandler

Spec == Init /\ [][Next]_vars

\* The formatting of the response alone: from the analyzer call of a
\* completed conversation, over a wider range of advice lengths
FormatInit ==
    LET data == [i \in 1..NumQuestions |-> <<"a">>]
    IN /\ user_sessions = [u \in {"u1"} |->
                              [collector |-> [id |-> 1, answers |-> data],
                               collected_data |-> Some(data)]]
       /\ conversations = [k \in {<<"c1", "u1">>} |-> COLLECTING_DATA]
       /\ pc = Analyzing(data)
       /\ last = [chat |-> "c1", user |-> "u1", text |-> <<"a">>,
                  handler |-> "handle_user_input", via_conv |-> TRUE, in_conv |-> TRUE,
                  had_session |-> TRUE, outcome |-> "analyzing"]
       /\ events = << Ev("process_user_input", "collector", <<(<<"a">>)>>, 1, 1, TRUE),
                      ReplyText("ack", TRUE), ChatAction(TRUE) >>

FormatResponse == AnalysisStep(WideAdviceLens, 8)

FormatSpec == FormatInit /\ [][FormatResponse]_vars

----------------------------------------------------------------------------
(* Vocabulary of the properties *)

IsText(text, cmd) == Len(text) > 0 /\ Head(text) = cmd

\* positions, in the calls of the current handler, of the calls of one kind
Calls(type, what) ==
    {i \in 1..Len(events) : events[i].type = type /\ events[i].what = what}

Attempted(what) == Calls("reply_text", what) # {}
Delivered(what) == {i \in Calls("reply_text", what) : events[i].ok}

HasSession(u) == u \in DOMAIN user_sessions
Collecting(u) ==
    \E c \in Chats : <<c, u>> \in DOMAIN conversations
                     /\ conversations[<<c, u>>] = COLLECTING_DATA

\* the handler of the last update has run to its end (returned or raised)
Finished == pc.at = "idle" /\ last.outcome \in {"returned", "raised"}

\* the collector returned completed data to the running/last handle_user_input
CollectorCompleted ==
    /\ last.handler = "handle_user_input"
    /\ Len(events) >= 2
    /\ events[1].type = "process_user_input" /\ events[1].ok
    /\ events[2].type = "reply_text" /\ events[2].what = "ack"

\* analyzer.generate_advice raised in the last handle_user_input
AnalyzerRaised ==
    \E i \in Calls("generate_advice", "advice") : ~events[i].ok

----------------------------------------------------------------------------
(* C1: a session exists for a user if and only if that user has an         *)
(* unfinished conversation (routing state COLLECTING_DATA).                *)
C1_SessionIffCollecting ==
    \A u \in Users : HasSession(u) <=> Collecting(u)

(* C2: a /start from a user who is mid-collection discards the session and *)
(* stores a fresh collector, so no earlier answer can reach the analyzer.  *)
C2_RestartDiscardsCollector ==
    (Finished \/ last.outcome = "dropped")
    /\ IsText(last.text, "/start") /\ last.had_session /\ last.in_conv
    => /\ last.handler = "start_command"
       /\ last.outcome = "returned" =>
             /\ HasSession(last.user)
             /\ user_sessions[last.user].collector.answers = <<>>

(* C3: a free-text message of a user without a session is answered with   *)
(* the "write /start" reply, and creates no session.                       *)
C3_FreeTextWithoutSessionAnswered ==
    last.outcome # "none" /\ TextNotCommand(last.text) /\ ~last.had_session
    => /\ Attempted("start_first")
       /\ ~HasSession(last.user)

(* C4: when the collector returned completed data, the acknowledgment      *)
(* precedes the analyzer call, which precedes every advice fragment, and   *)
(* when the handler returns the user's session is absent.                  *)
C4_CompletionOrderAndSessionRemoved ==
    CollectorCompleted
    => /\ \A i \in Calls("generate_advice", "advice") : i > 2
       /\ \A j \in Calls("reply_text", "advice") :
             \E i \in Calls("generate_advice", "advice") : i < j
       /\ (pc.at = "idle" /\ last.outcome = "returned") => ~HasSession(last.user)

(* C5: if generate_advice raises, the user receives exactly one generic    *)
(* failure message and no advice fragment, the session is removed and      *)
(* nothing is written to the persistence sink.                             *)
C5_AnalyzerFailure ==
    Finished /\ AnalyzerRaised
    => /\ Cardinality(Delivered("error_analysis") \cup Delivered("error_input")) = 1
       /\ ~Attempted("advice")
       /\ ~HasSession(last.user)
       /\ Calls("add_record", "...") = {}

(* C6: if process_user_input raises, the user is sent the generic failure  *)
(* message and the user's session is removed.                              *)
C6_CollectorFailureRemovesSession ==
    /\ Finished
    /\ last.handler = "handle_user_input"
    /\ Len(events) >= 1
    /\ events[1].type = "process_user_input" /\ ~events[1].ok
    => /\ Attempted("error_input")
       /\ ~HasSession(last.user)

(* C7: every /cancel is answered with the cancellation acknowledgment, and *)
(* afterwards the user has no session.                                     *)
C7_CancelAlwaysAcknowledged ==
    last.outcome # "none" /\ IsText(last.text, "/cancel")
    => /\ Attempted("cancelled")
       /\ ~HasSession(last.user)

(* C8: /help is answered with the help text in every conversation state    *)
(* and changes neither user_sessions nor the routing state; the next       *)
(* free-text message of a user who was mid-collection goes to the same     *)
(* collector instance.                                                     *)
C8_HelpIsStateless ==
    /\ [][ (pc.at = "idle" /\ IsText(last'.text, "/help"))
           => /\ last'.handler = "help_command"
              /\ Len(events') >= 1
              /\ events'[1].type = "reply_text" /\ events'[1].what = "help"
              /\ user_sessions' = user_sessions
              /\ conversations' = conversations
              /\ pc' = pc ]_vars
    /\ [][ (/\ pc.at = "idle"
            /\ last.handler = "help_command" /\ last.in_conv /\ HasSession(last.user)
            /\ last'.chat = last.chat /\ last'.user = last.user
            /\ TextNotCommand(last'.text))
           => /\ last'.handler = "handle_user_input"
              /\ events'[1].type = "process_user_input"
              /\ events'[1].lo = user_sessions[last.user].collector.id
              /\ events'[1].data = <<last'.text>> ]_vars

C8_HelpMidCollection ==
    /\ last.handler = "help_command" /\ last.outcome = "returned"
    /\ last.in_conv /\ last.had_session
    /\ HasSession(last.user)
    /\ user_sessions[last.user].collector.answers # <<>>
    /\ Delivered("help") # {}

(* C9: a message that begins with a command token is never passed to the   *)
(* collector; handle_user_input only receives non-command text of a        *)
(* conversation that is in COLLECTING_DATA.                                *)
C9_CommandsNeverReachCollector ==
    /\ last.handler = "handle_user_input" => ~IsCommand(last.text) /\ last.in_conv
    /\ \A i \in Calls("process_user_input", "collector") :
          /\ last.handler = "handle_user_input"
          /\ ~IsCommand(last.text)
          /\ events[i].data = <<last.text>>

C9_CommandMidCollection ==
    /\ last.outcome \in {"returned", "dropped"}
    /\ IsCommand(last.text)
    /\ last.in_conv /\ last.had_session
    /\ Calls("process_user_input", "collector") = {}

(* C10: a conversation that completes (completed data, advice sent) makes  *)
(* exactly one write to the persistence sink, carrying the collected data  *)
(* and the first 200 characters of the advice followed by an ellipsis.     *)
AdviceSent == Finished /\ Calls("logger.info", "analysis") # {}

----------------------------------------------------------------------------
(* C11: the fragments sent for a response text are contiguous slices of it  *)
(* starting at 0, each of 1..4096 characters; when all of them are sent     *)
(* they end at the end of the text (so their concatenation is the text),    *)
(* and a text of at most 4096 characters is sent as a single fragment.      *)
Fragments == Calls("reply_text", "advice")

C11_FragmentsRoundTrip ==
    /\ \A i \in Fragments : (events[i].hi - events[i].lo) \in 1..ChunkSize
    /\ \A i \in Fragments : (\A k \in Fragments : k >= i) => events[i].lo = 0
    /\ \A i, j \in Fragments :
          (i < j /\ \A k \in Fragments : ~(i < k /\ k < j)) => events[j].lo = events[i].hi
    /\ AdviceSent =>
          \E j \in Calls("generate_advice", "advice") : \E i \in Fragments :
             /\ \A k \in Fragments : k <= i
             /\ events[i].hi = HeaderLen + events[j].hi + FooterLen
             /\ events[i].hi <= ChunkSize => Fragments = {i}

C11_ThreeFragmentsLastOfOne ==
    /\ AdviceSent
    /\ Cardinality(Fragments) = 3
    /\ \E i \in Fragments : events[i].hi - events[i].lo = 1
    /\ \A i \in Fragments : events[i].ok

(* C12: when the send of one fragment of a multi-part advice fails, the     *)
(* failure is logged, the fragment is not sent again, and every remaining   *)
(* fragment is still attempted, up to the end of the response text.         *)
C12_RemainingFragmentsAttempted ==
    Finished /\ (\E i \in Fragments : ~events[i].ok)
    => /\ Calls("logger.error", "analysis") # {}
       /\ \A i, k \in Fragments : i # k => events[i].lo # events[k].lo
       /\ \E j \in Calls("generate_advice", "advice") : \E i \in Fragments :
             events[i].hi = HeaderLen + events[j].hi + FooterLen

(* C13: a failure raised inside any handler (collaborator or outbound send) *)
(* is turned into a generic apology to the user plus a log entry.           *)
C13_FailuresBecomeApologies ==
    Finished /\ (\E i \in 1..Len(events) : ~events[i].ok)
    => /\ Attempted("error_input") \/ Attempted("error_analysis")
       /\ \E i \in 1..Len(events) : events[i].type = "logger.error"

(* C14: handling an update of one user leaves the session of every other    *)
(* user (its presence, its collector, its collected_data) unchanged.        *)
C14_OtherUsersUntouched ==
    [][ \A b \in Users :
           b # last'.user =>
              /\ (b \in DOMAIN user_sessions') <=> (b \in DOMAIN user_sessions)
              /\ b \in DOMAIN user_sessions => user_sessions'[b] = user_sessions[b] ]_vars

C14_CancelBesideOtherSession ==
    /\ last.handler = "cancel_command"
    /\ last.had_session /\ ~HasSession(last.user)
    /\ \E b \in Users \ {last.user} :
          HasSession(b) /\ user_sessions[b].collector.answers # <<>>

(* C15: while the analyzer call for one user is in progress no other update *)
(* of that user is processed, but an update of any other user can be        *)
(* dispatched and handled.                                                  *)
HandlesUpdateOf(u) ==
    /\ StartCommand \/ HandleUserInput \/ CancelCommand \/ HelpCommand \/ NoHandler
    /\ last'.user = u

C15_OnlyThatUserBlocked ==
    pc.at = "generate_advice"
    => /\ ~ENABLED HandlesUpdateOf(last.user)
       /\ \A b \in Users \ {last.user} : ENABLED HandlesUpdateOf(b)

(* C16: a /start from a user with no conversation creates a new collector,  *)
(* stores the session {collector, collected_data absent}, sends exactly two *)
(* messages, the welcome text and then the opening prompt, and puts the     *)
(* user in COLLECTING_DATA.                                                 *)
StartStored ==
    /\ HasSession(last.user)
    /\ user_sessions[last.user].collector = DataCollectorAgent(events[1].lo)
    /\ user_sessions[last.user].collected_data = None
    /\ \A b \in Users \ {last.user} :
          HasSession(b) => user_sessions[b].collector.id # events[1].lo

StartCompleted ==
    /\ StartStored
    /\ Len(events) = 3
    /\ events[1].type = "start_conversation" /\ events[1].ok
    /\ events[2] = ReplyText("welcome", TRUE)
    /\ events[3] = ReplyQuestion(1, TRUE)
    /\ <<last.chat, last.user>> \in DOMAIN conversations
    /\ conversations[<<last.chat, last.user>>] = COLLECTING_DATA

C16_StartSendsTwoMessages ==
    last.handler = "start_command" => StartCompleted

(* C17: between updates every stored session has collected_data absent: a  *)
(* session whose collected_data was set is removed before the handler that  *)
(* set it returns, on the success path and on every failure path.           *)
C17_NoCompletedSessionBetweenUpdates ==
    pc.at = "idle"
    => \A u \in DOMAIN user_sessions : user_sessions[u].collected_data = None

(* The collector as the opaque collaborator of the interface: besides the   *)
(* collector above, one whose process_user_input may return present data    *)
(* that is an empty mapping. The call log records what was returned.        *)
CollectorResults(collector, text) ==
    LET r == process_user_input(collector, text)
    IN {r, [r EXCEPT !.collected_data = Some(<<>>)]}

ReturnedCall(collector, text, r) ==
    Ev("process_user_input",
       IF r.collected_data.some THEN "returned_data" ELSE "returned_absent",
       <<text>>, collector.id, collector.id, TRUE)

HandleOpaqueInput ==
    \E c \in Chats : \E u \in Members[c], text \in Texts :
       LET d == Dispatch(conversations, <<c, u>>, text)
       IN /\ pc.at = "idle"
          /\ d.handler = "handle_user_input"
          /\ \E f \in 0..3, g \in BOOLEAN, h \in BOOLEAN :
                IF u \notin DOMAIN user_sessions
                THEN Apply(c, u, text, d, handle_user_input(user_sessions, u, text, f, g, h))
                ELSE LET collector == user_sessions[u].collector
                     IN \E r \in CollectorResults(collector, text) :
                           Apply(c, u, text, d,
                                 handle_collected(user_sessions, u,
                                                  ReturnedCall(collector, text, r), r, f, g, h))

OpaqueNext ==
    \/ StartCommand
    \/ HandleOpaqueInput
    \/ GenerateAnalysis
    \/ CancelCommand
    \/ HelpCommand
    \/ NoHandler

OpaqueSpec == Init /\ [][OpaqueNext]_vars

(* C18: for a free-text message while COLLECTING, when no call raises: if   *)
(* the collector returned absent data exactly one message, the next prompt, *)
(* is sent, the analyzer is not called and the session keeps its collector; *)
(* if it returned present data, an empty mapping included, the completion   *)
(* transition (acknowledgment, analyzer call, session removal) is taken.    *)
NothingRaised == \A i \in 1..Len(events) : events[i].ok

PromptOnly ==
    /\ Len(events) = 2
    /\ events[2].type = "reply_text" /\ events[2].what = "question"
    /\ pc.at = "idle"
    /\ HasSession(last.user)
    /\ user_sessions[last.user].collector.id = events[1].lo
    /\ user_sessions[last.user].collected_data = None

CompletionTaken ==
    /\ Len(events) >= 3
    /\ events[2] = ReplyText("ack", TRUE)
    /\ \/ pc.at = "generate_advice"
       \/ /\ Calls("generate_advice", "advice") # {}
          /\ ~HasSession(last.user)

C18_PresentDataCompletes ==
    /\ last.handler = "handle_user_input"
    /\ last.had_session
    /\ NothingRaised
    => /\ events[1].what = "returned_absent" => PromptOnly
       /\ events[1].what = "returned_data" => CompletionTaken

(* C19: whenever handle_user_input is dispatched the user has an entry in   *)
(* user_sessions, so the "no active session" branch is never taken, also    *)
(* for a user who talks to the bot from two chats.                          *)
C19_InputAlwaysFindsSession ==
    last.handler = "handle_user_input"
    => last.had_session /\ ~Attempted("start_first")

====
